---- MODULE Spec2Model ----
(***************************************************************************)
(* A model of ls11.c: the traversal driver (main), the directory lister    *)
(* (list_dir), the queue-node factory (new_dir_path / xmalloc) and the     *)
(* name filter.  The file system is the environment: opendir, readdir and  *)
(* lstat answer nondeterministically within the bounds below.  Strings are *)
(* C strings: a name is the sequence of its characters, and a path is kept *)
(* as the number of its leading characters that are not spelled out, the   *)
(* last of those, and the characters that follow them.                     *)
(***************************************************************************)
EXTENDS Integers, Sequences, FiniteSets, TLC

\* ------------------------------------------------------------ constants
PATH_MAX == 4096
FILTER_DEFAULT == 0
FILTER_ALMOST == 1
FILTER_ALL == 2
NULL == 0
NUL == "NUL"

\* ------------------------------------------------------------ bounds
\* The number of entries readdir returns over a whole run.
MaxReads == 3

\* ------------------------------------------------------------ inputs
Dot == <<".">>
DotDot == <<".", ".">>
DotGit == <<".", "g", "i", "t">>
DotDotName == <<".", ".", "n", "a", "m", "e">>
File == <<"f", "i", "l", "e">>

\* What readdir can return: d_name, the type lstat would report, and whether
\* lstat on the entry succeeds.
Dirents ==
  { [name |-> Dot, type |-> "dir", lstat_ok |-> TRUE],
    [name |-> DotDot, type |-> "dir", lstat_ok |-> TRUE],
    [name |-> DotGit, type |-> "dir", lstat_ok |-> TRUE],
    [name |-> DotDotName, type |-> "lnk", lstat_ok |-> TRUE],
    [name |-> File, type |-> "reg", lstat_ok |-> TRUE],
    [name |-> <<"a">>, type |-> "dir", lstat_ok |-> TRUE],
    [name |-> <<"b">>, type |-> "dir", lstat_ok |-> TRUE],
    [name |-> <<"c">>, type |-> "dir", lstat_ok |-> FALSE] }

\* A C string: pre characters that are not spelled out, the last of which is
\* last, then the characters of tail; term says whether a NUL ends it inside
\* its buffer.
Str(pre, last, tail) == [pre |-> pre, last |-> last, tail |-> tail, term |-> TRUE]

\* The root paths of argv: "./" (the default), "d", "", and paths of
\* PATH_MAX - 3, PATH_MAX - 1 and PATH_MAX + 2 characters.
RootPaths ==
  { Str(0, NUL, <<".", "/">>),
    Str(0, NUL, <<"d">>),
    Str(0, NUL, <<>>),
    Str(PATH_MAX - 3, "d", <<>>),
    Str(PATH_MAX - 1, "/", <<>>),
    Str(PATH_MAX + 2, "d", <<>>) }

VARIABLES
  filter,     \* the hidden-file policy (static int filter)
  recursive,  \* static bool recursive
  root,       \* the path parse_cmd_args returned
  pc,         \* where the process is
  head,       \* main's head
  heap,       \* the dir_path nodes ever allocated; a node's address is its index
  freed,      \* the addresses passed to free
  subque,     \* list_dir's subque
  path,       \* list_dir's path buffer, path_len being its length
  handles,    \* the number of open directory streams
  out,        \* the lines written to standard output
  err,        \* the lines written to standard error
  reads,      \* the entries readdir has returned in this run
  dents,      \* per node, what readdir returned and what list_dir did with it
  listed,     \* the nodes list_dir was called on, in call order
  origin,     \* per node, the node that was listed when it was created
  opened,     \* per node, how list_dir's set-up ended
  faults      \* memory errors: a freed node read or written, a double free

vars == <<filter, recursive, root, pc, head, heap, freed, subque, path, handles,
          out, err, reads, dents, listed, origin, opened, faults>>

\* ------------------------------------------------------------ strings
\* s[i] of a C name (i counts from 0); the NUL follows the last character.
At(s, i) == IF i < Len(s) THEN s[i + 1] ELSE NUL

strlen(s) == s.pre + Len(s.tail)

LastChar(s) == IF s.tail = <<>> THEN s.last ELSE s.tail[Len(s.tail)]

Min(a, b) == IF a < b THEN a ELSE b

\* strncpy(&buf[strlen(buf)], name, n): at most n characters of name are
\* copied, and the NUL only when name is shorter than n.
strncpy_at(buf, name, n) ==
  [buf EXCEPT !.tail = buf.tail \o SubSeq(name, 1, Min(Len(name), n)),
              !.term = Len(name) < n]

\* strncpy(dst, src, n) into an empty buffer: the first n characters of src,
\* and the NUL only when src is shorter than n.
strncpy(src, n) ==
  IF strlen(src) < n THEN src
  ELSE [pre |-> Min(src.pre, n),
        last |-> IF src.pre <= n THEN src.last ELSE "?",
        tail |-> SubSeq(src.tail, 1, n - Min(src.pre, n)),
        term |-> FALSE]

\* ------------------------------------------------------------ name filter
\* Faulty variant: the second character alone decides, so "..name" counts as "..".
Hidden_Prefix(name, f) ==
  /\ f # FILTER_ALL
  /\ At(name, 0) = "."
  /\ \/ f = FILTER_DEFAULT
     \/ At(name, 1) = NUL
     \/ At(name, 1) = "."

\* list_dir's test of a name against the policy: TRUE when the entry is skipped.
Hidden(name, f) ==
  /\ f # FILTER_ALL
  /\ At(name, 0) = "."
  /\ \/ f = FILTER_DEFAULT
     \/ At(name, 1 + (IF At(name, 1) = "." THEN 1 ELSE 0)) = NUL

\* Faulty variant: the test is missing.
IsDotOrDotDot_Never(name) == FALSE

\* list_dir's test that keeps "." and ".." out of the queue.
IsDotOrDotDot(name) ==
  /\ At(name, 0) = "."
  /\ At(name, 1 + (IF At(name, 1) = "." THEN 1 ELSE 0)) = NUL

\* ------------------------------------------------------------ queue nodes
\* Faulty variant: s->next is left NULL.
new_dir_path_NoNext(h, p, depth, next) ==
  Append(h, [path |-> strncpy(p, PATH_MAX + 1), depth |-> depth, next |-> NULL])

\* new_dir_path after a successful xmalloc: the heap with the new node, whose
\* address is the heap's new length.
new_dir_path(h, p, depth, next) ==
  Append(h, [path |-> strncpy(p, PATH_MAX + 1), depth |-> depth, next |-> next])

\* Faulty variant: the new node goes to the end of the queue.
RECURSIVE LastFrom(_, _)
LastFrom(h, a) == IF h[a].next = NULL THEN a ELSE LastFrom(h, h[a].next)

Enqueue_AtTail(h, sq, base, p) ==
  LET h1 == new_dir_path(h, p, h[base].depth + 1, NULL)
  IN  [h1 EXCEPT ![LastFrom(h, sq)].next = Len(h1)]

\* Faulty variant: the new node is linked after base instead of after subque.
Enqueue_AfterBase(h, sq, base, p) ==
  LET h1 == new_dir_path(h, p, h[base].depth + 1, h[base].next)
  IN  [h1 EXCEPT ![base].next = Len(h1)]

\* subque->next = new_dir_path(path, base->depth + 1, subque->next)
Enqueue(h, sq, base, p) ==
  LET h1 == new_dir_path(h, p, h[base].depth + 1, h[sq].next)
  IN  [h1 EXCEPT ![sq].next = Len(h1)]

Live(a) == a \in 1..Len(heap) /\ a \notin freed

Access(a) == IF Live(a) THEN faults ELSE faults \cup {"use_after_free"}

\* ------------------------------------------------------------ output
\* Faulty variant: the header is printed whatever the depth.
Header_Always(h, n) == <<[t |-> "hdr", n |-> n, s |-> h[n].path]>>

\* main's header test and line.
Header(h, n) ==
  IF h[n].depth # 0 THEN <<[t |-> "hdr", n |-> n, s |-> h[n].path]>> ELSE <<>>

\* One entry line.  The long-format fields, the colour and the type
\* indicator change the text of the line, never the number of lines.
EntryLine(n, name) == [t |-> "ent", n |-> n, s |-> name]

\* A line of standard error: perror(p), or "too long path".  n and name say
\* which node, and which entry of it, the line was printed for.
Perror(p, n, name) == [t |-> "perror", s |-> p, n |-> n, name |-> name]

TooLong(n) == [t |-> "too long path", s |-> Str(0, NUL, <<>>), n |-> n, name |-> <<>>]

Init ==
  /\ filter \in {FILTER_DEFAULT, FILTER_ALMOST, FILTER_ALL}
  /\ recursive \in BOOLEAN
  /\ root \in RootPaths
  /\ pc = "start"
  /\ head = NULL
  /\ heap = <<>>
  /\ freed = {}
  /\ subque = NULL
  /\ path = Str(0, NUL, <<>>)
  /\ handles = 0
  /\ out = <<>>
  /\ err = <<>>
  /\ reads = 0
  /\ dents = <<>>
  /\ listed = <<>>
  /\ origin = <<>>
  /\ opened = <<>>
  /\ faults = {}

\* ------------------------------------------------------------ main
\* head = new_dir_path(path, 0, NULL)
MainStart ==
  /\ pc = "start"
  /\ heap' = new_dir_path(heap, root, 0, NULL)
  /\ head' = Len(heap')
  /\ dents' = Append(dents, <<>>)
  /\ origin' = Append(origin, NULL)
  /\ opened' = Append(opened, "pending")
  /\ pc' = "loop"
  /\ UNCHANGED <<filter, recursive, root, freed, subque, path, handles, out, err,
                 reads, listed, faults>>

\* xmalloc's malloc returns NULL for the root node: perror(""), exit.
MainStartNoMemory ==
  /\ pc = "start"
  /\ err' = Append(err, Perror(Str(0, NUL, <<>>), NULL, <<>>))
  /\ pc' = "exit"
  /\ UNCHANGED <<filter, recursive, root, head, heap, freed, subque, path, handles,
                 out, reads, dents, listed, origin, opened, faults>>

\* while (head != NULL): the header, then the call of list_dir(head)
MainLoop ==
  /\ pc = "loop"
  /\ head # NULL
  /\ faults' = Access(head)
  /\ out' = out \o Header(heap, head)
  /\ listed' = Append(listed, head)
  /\ pc' = "list"
  /\ UNCHANGED <<filter, recursive, root, head, heap, freed, subque, path, handles,
                 err, reads, dents, origin, opened>>

\* while (head != NULL) fails: return EXIT_SUCCESS
MainDone ==
  /\ pc = "loop"
  /\ head = NULL
  /\ pc' = "done"
  /\ UNCHANGED <<filter, recursive, root, head, heap, freed, subque, path, handles,
                 out, err, reads, dents, listed, origin, opened, faults>>

\* Faulty variant: free(head) comes first, and head->next is read from the freed node.
MainAdvance_FreeFirst ==
  /\ pc = "ret"
  /\ freed' = freed \cup {head}
  /\ faults' = faults \cup {"use_after_free"}
  /\ head' \in {heap[head].next, NULL}
  /\ pc' = "loop"
  /\ UNCHANGED <<filter, recursive, root, heap, subque, path, handles, out, err,
                 reads, dents, listed, origin, opened>>

\* tmp = head; head = head->next; free(tmp)
MainAdvance ==
  /\ pc = "ret"
  /\ faults' = (Access(head) \cup IF head \in freed THEN {"double_free"} ELSE {})
  /\ head' = heap[head].next
  /\ freed' = freed \cup {head}
  /\ pc' = "loop"
  /\ UNCHANGED <<filter, recursive, root, heap, subque, path, handles, out, err,
                 reads, dents, listed, origin, opened>>

\* ------------------------------------------------------------ list_dir
\* Faulty variant: a directory that cannot be opened ends the process.
ListDirOpenFails_Exit ==
  /\ pc = "list"
  /\ faults' = Access(head)
  /\ subque' = head
  /\ err' = Append(err, Perror(heap[head].path, head, <<>>))
  /\ opened' = [opened EXCEPT ![head] = "open_failed"]
  /\ pc' = "exit"
  /\ UNCHANGED <<filter, recursive, root, head, heap, freed, path, handles, out,
                 reads, dents, listed, origin>>

\* opendir fails: perror(base_path), return.
ListDirOpenFails ==
  /\ pc = "list"
  /\ faults' = Access(head)
  /\ subque' = head
  /\ err' = Append(err, Perror(heap[head].path, head, <<>>))
  /\ opened' = [opened EXCEPT ![head] = "open_failed"]
  /\ pc' = "ret"
  /\ UNCHANGED <<filter, recursive, root, head, heap, freed, path, handles, out,
                 reads, dents, listed, origin>>

\* Whether opendir(p) can succeed: the system refuses the empty path, and a
\* path of PATH_MAX characters or more, which one without its NUL is.
CanOpen(p) == p.term /\ strlen(p) > 0 /\ strlen(p) < PATH_MAX

\* opendir succeeds; then the length test, and the '/' after the base path.
ListDirOpen ==
  /\ pc = "list"
  /\ CanOpen(heap[head].path)
  /\ faults' = Access(head)
  /\ subque' = head
  /\ handles' = handles + 1
  /\ LET base_path == heap[head].path
         path_len == strlen(base_path)
     IN  IF path_len >= PATH_MAX - 1
         THEN /\ err' = Append(err, TooLong(head))
              /\ opened' = [opened EXCEPT ![head] = "too_long"]
              /\ pc' = "ret"
              /\ path' = path
         ELSE /\ err' = err
              /\ opened' = [opened EXCEPT ![head] = "open"]
              /\ pc' = "read"
              /\ path' = LET copy == strncpy(base_path, PATH_MAX)
                         IN  IF LastChar(copy) # "/"
                             THEN [copy EXCEPT !.tail = @ \o <<"/">>]
                             ELSE copy
  /\ UNCHANGED <<filter, recursive, root, head, heap, freed, out, reads, dents,
                 listed, origin>>

\* lstat(path, &dent_stat) == 0.  A path that fills the buffer has no NUL
\* inside it: what lstat then reads is PATH_MAX characters or more, which
\* the system refuses.
Lstat(buf, d) == buf.term /\ strlen(buf) < PATH_MAX /\ d.lstat_ok

\* recursive && S_ISDIR(st_mode), and the name is neither "." nor ".."
Recurses(d) == recursive /\ d.type = "dir" /\ ~IsDotOrDotDot(d.name)

Unread(d) == \A i \in 1..Len(dents[head]) : dents[head][i].name # d.name

\* What the run has seen of an entry: the name and type the system gave,
\* the branch list_dir took (did) and the node created for it (child).
Note(d, did, child) ==
  [dents EXCEPT ![head] =
     Append(@, [name |-> d.name, type |-> d.type, did |-> did, child |-> child])]

\* One turn of the readdir loop for an entry the filter skips.
ListDirHidden ==
  /\ pc = "read"
  /\ reads < MaxReads
  /\ \E d \in Dirents :
       /\ Unread(d)
       /\ Hidden(d.name, filter)
       /\ dents' = Note(d, "hidden", NULL)
  /\ reads' = reads + 1
  /\ UNCHANGED <<filter, recursive, root, pc, head, heap, freed, subque, path,
                 handles, out, err, listed, origin, opened, faults>>

\* Faulty variant: the continue after perror(path) is missing, and the entry's line
\* is printed from the stat buffer lstat left unset.
ListDirLstatFails_NoContinue ==
  /\ pc = "read"
  /\ reads < MaxReads
  /\ \E d \in Dirents :
       /\ Unread(d)
       /\ ~Hidden(d.name, filter)
       /\ LET buf == strncpy_at(path, d.name, PATH_MAX - strlen(path))
          IN  /\ ~Lstat(buf, d)
              /\ err' = Append(err, Perror(buf, head, d.name))
       /\ out' = Append(out, EntryLine(head, d.name))
       /\ dents' = Note(d, "failed", NULL)
  /\ reads' = reads + 1
  /\ UNCHANGED <<filter, recursive, root, pc, head, heap, freed, subque, path,
                 handles, listed, origin, opened, faults>>

\* One turn for a visible entry whose lstat fails: perror(path), continue.
ListDirLstatFails ==
  /\ pc = "read"
  /\ reads < MaxReads
  /\ \E d \in Dirents :
       /\ Unread(d)
       /\ ~Hidden(d.name, filter)
       /\ LET buf == strncpy_at(path, d.name, PATH_MAX - strlen(path))
          IN  /\ ~Lstat(buf, d)
              /\ err' = Append(err, Perror(buf, head, d.name))
       /\ dents' = Note(d, "failed", NULL)
  /\ reads' = reads + 1
  /\ UNCHANGED <<filter, recursive, root, pc, head, heap, freed, subque, path,
                 handles, out, listed, origin, opened, faults>>

\* One turn for a visible entry that is not queued: its line is printed.
ListDirPrint ==
  /\ pc = "read"
  /\ reads < MaxReads
  /\ \E d \in Dirents :
       /\ Unread(d)
       /\ ~Hidden(d.name, filter)
       /\ Lstat(strncpy_at(path, d.name, PATH_MAX - strlen(path)), d)
       /\ ~Recurses(d)
       /\ out' = Append(out, EntryLine(head, d.name))
       /\ dents' = Note(d, "printed", NULL)
  /\ reads' = reads + 1
  /\ UNCHANGED <<filter, recursive, root, pc, head, heap, freed, subque, path,
                 handles, err, listed, origin, opened, faults>>

\* One turn for a visible directory of a recursive run: it is queued after
\* subque, then its line is printed.
ListDirEnqueue ==
  /\ pc = "read"
  /\ reads < MaxReads
  /\ \E d \in Dirents :
       /\ Unread(d)
       /\ ~Hidden(d.name, filter)
       /\ LET buf == strncpy_at(path, d.name, PATH_MAX - strlen(path))
          IN  /\ Lstat(buf, d)
              /\ Recurses(d)
              /\ heap' = Enqueue(heap, subque, head, buf)
       /\ subque' = Len(heap')
       /\ faults' = (Access(subque) \cup Access(head))
       /\ out' = Append(out, EntryLine(head, d.name))
       /\ dents' = Append(Note(d, "printed", Len(heap')), <<>>)
       /\ origin' = Append(origin, head)
       /\ opened' = Append(opened, "pending")
  /\ reads' = reads + 1
  /\ UNCHANGED <<filter, recursive, root, pc, head, freed, path, handles, err,
                 listed>>

\* The same turn when xmalloc's malloc returns NULL: perror(""), exit.
ListDirNoMemory ==
  /\ pc = "read"
  /\ reads < MaxReads
  /\ \E d \in Dirents :
       /\ Unread(d)
       /\ ~Hidden(d.name, filter)
       /\ Lstat(strncpy_at(path, d.name, PATH_MAX - strlen(path)), d)
       /\ Recurses(d)
       /\ dents' = Note(d, "aborted", NULL)
  /\ err' = Append(err, Perror(Str(0, NUL, <<>>), NULL, <<>>))
  /\ reads' = reads + 1
  /\ pc' = "exit"
  /\ UNCHANGED <<filter, recursive, root, head, heap, freed, subque, path, handles,
                 out, listed, origin, opened, faults>>

\* readdir returns NULL: closedir(dir), return.
ListDirClose ==
  /\ pc = "read"
  /\ handles' = handles - 1
  /\ opened' = [opened EXCEPT ![head] = "closed"]
  /\ pc' = "ret"
  /\ UNCHANGED <<filter, recursive, root, head, heap, freed, subque, path, out,
                 err, reads, dents, listed, origin, faults>>

Next ==
  \/ MainStart
  \/ MainStartNoMemory
  \/ MainLoop
  \/ MainDone
  \/ MainAdvance
  \/ ListDirOpenFails
  \/ ListDirOpen
  \/ ListDirHidden
  \/ ListDirLstatFails
  \/ ListDirPrint
  \/ ListDirEnqueue
  \/ ListDirNoMemory
  \/ ListDirClose

Spec == Init /\ [][Next]_vars

\* The process is the only thread and every step of it is taken.
LiveSpec == Spec /\ WF_vars(Next)

\* ------------------------------------------------------------ history
Nodes == 1..Len(heap)

Range(s) == {s[i] : i \in DOMAIN s}

Index(s, x) == CHOOSE i \in DOMAIN s : s[i] = x

\* The queue as main sees it: head, head->next, ...
RECURSIVE QueueFrom(_, _)
QueueFrom(a, fuel) ==
  IF a = NULL \/ fuel = 0 THEN <<>> ELSE <<a>> \o QueueFrom(heap[a].next, fuel - 1)

Queue == QueueFrom(head, Len(heap) + 1)

\* a is the directory whose listing created n, or that of one above it.
RECURSIVE IsAncestor(_, _)
IsAncestor(a, n) ==
  /\ origin[n] # NULL
  /\ (origin[n] = a \/ IsAncestor(a, origin[n]))

\* The place of node s among the entries read from its parent.
ReadIndex(s) ==
  CHOOSE k \in DOMAIN dents[origin[s]] : dents[origin[s]][k].child = s

\* The names on the entry lines of node n, in output order.
IsLineOf(n, l) == l.t = "ent" /\ l.n = n

RECURSIVE NamesOf(_, _)
NamesOf(n, s) ==
  IF s = <<>> THEN <<>>
  ELSE (IF IsLineOf(n, Head(s)) THEN <<Head(s).s>> ELSE <<>>) \o NamesOf(n, Tail(s))

\* ------------------------------------------------------------ C1
\* C1: in a recursive run every entry line of a directory D is printed
\* before the header and the entry lines of the directories below D, and two
\* subdirectories of one parent are listed in the order in which readdir
\* returned their entries.
C1_EntriesBeforeSubdirectories ==
  /\ \A i, j \in DOMAIN out :
       (out[i].t = "ent" /\ IsAncestor(out[i].n, out[j].n)) => i < j
  /\ \A s1, s2 \in Nodes :
       (/\ origin[s1] # NULL
        /\ origin[s1] = origin[s2]
        /\ ReadIndex(s1) < ReadIndex(s2))
       => /\ \A i, j \in DOMAIN out : (out[i].n = s1 /\ out[j].n = s2) => i < j
          /\ s2 \in Range(listed)
               => (s1 \in Range(listed) /\ Index(listed, s1) < Index(listed, s2))

\* A finished recursive run in which a directory had two subdirectories,
\* both listed, and the first of them printed an entry of its own.
C1_Witness ==
  /\ pc = "done"
  /\ recursive
  /\ \E s1, s2 \in Nodes :
       /\ origin[s1] # NULL
       /\ origin[s1] = origin[s2]
       /\ ReadIndex(s1) < ReadIndex(s2)
       /\ {s1, s2} \subseteq Range(listed)
       /\ NamesOf(s1, out) # <<>>
       /\ Len(NamesOf(origin[s1], out)) >= 2

\* ------------------------------------------------------------ C2
\* C2 as stated: breadth-first, every directory at depth d is listed before
\* any directory at depth d + 1.
C2_BreadthFirst ==
  \A i, j \in DOMAIN listed :
    i < j => heap[listed[i]].depth <= heap[listed[j]].depth

\* C2 as amended: the walk is depth-first in pre-order.  Every directory but
\* the root is listed after its parent, and the directory listed next after
\* X is a subdirectory of X or of a directory above X, so a directory at
\* depth d + 1 is listed before the directories at depth d queued behind its
\* parent.
C2_PreOrder ==
  \A i \in DOMAIN listed :
    i > 1 =>
      LET n == listed[i]
          prev == listed[i - 1]
      IN  /\ origin[n] # NULL
          /\ origin[n] \in Range(SubSeq(listed, 1, i - 1))
          /\ heap[n].depth = heap[origin[n]].depth + 1
          /\ (origin[n] = prev \/ IsAncestor(origin[n], prev))

\* A run that listed a directory at depth 2 and then one at depth 1.
C2_Witness ==
  \E i \in DOMAIN listed :
    /\ i > 1
    /\ heap[listed[i - 1]].depth = 2
    /\ heap[listed[i]].depth = 1

\* ------------------------------------------------------------ C3
HeaderCount(n) == Cardinality({i \in DOMAIN out : out[i].t = "hdr" /\ out[i].n = n})

\* C3: a header is printed exactly once for every dequeued directory of
\* depth greater than 0, with its path and before its entry lines; never for
\* the root, which alone has depth 0; and never in a run without recursion.
C3_HeaderOncePerSubdirectory ==
  /\ \A n \in Nodes :
       /\ HeaderCount(n) = (IF n \in Range(listed) /\ heap[n].depth > 0 THEN 1 ELSE 0)
       /\ (heap[n].depth = 0) <=> (n = 1)
       /\ heap[n].depth >= 0
  /\ \A i, j \in DOMAIN out :
       (out[i].t = "hdr" /\ out[j].t = "ent" /\ out[i].n = out[j].n) => i < j
  /\ \A i \in DOMAIN out : out[i].t = "hdr" => out[i].s = heap[out[i].n].path
  /\ ~recursive => \A i \in DOMAIN out : out[i].t # "hdr"

\* A finished run that printed entry lines for the root and, after a header,
\* for a subdirectory.
C3_Witness ==
  /\ pc = "done"
  /\ NamesOf(1, out) # <<>>
  /\ \E n \in Nodes : heap[n].depth > 0 /\ HeaderCount(n) = 1 /\ NamesOf(n, out) # <<>>

\* ------------------------------------------------------------ C4
\* The classification of section 4.1.
HiddenByPolicy(name, f) ==
  \/ f = FILTER_DEFAULT /\ name # <<>> /\ name[1] = "."
  \/ f = FILTER_ALMOST /\ name \in {Dot, DotDot}

RECURSIVE Words(_, _)
Words(alphabet, n) ==
  IF n = 0 THEN {<<>>}
  ELSE LET shorter == Words(alphabet, n - 1)
       IN  shorter \cup {Append(w, c) : w \in shorter, c \in alphabet}

\* C4: for every name and policy list_dir skips the entry exactly when the
\* policy is Default and the name starts with '.', or the policy is Almost and
\* the name is "." or ".."; this for every entry the run has read and, at the
\* start, for every name of at most three characters over '.', 'g' and 'n'.
C4_FilterMatchesPolicy ==
  /\ \A n \in Nodes : \A k \in DOMAIN dents[n] :
       (dents[n][k].did = "hidden") <=> HiddenByPolicy(dents[n][k].name, filter)
  /\ pc = "start" =>
       \A name \in Words({".", "g", "n"}, 3) \cup {d.name : d \in Dirents} :
         \A f \in {FILTER_DEFAULT, FILTER_ALMOST, FILTER_ALL} :
           Hidden(name, f) <=> HiddenByPolicy(name, f)

\* Under Almost a directory gave "..", which was skipped, and ".git" and
\* "..name", which were not.
C4_Witness ==
  /\ filter = FILTER_ALMOST
  /\ \E n \in Nodes :
       /\ \E k \in DOMAIN dents[n] : dents[n][k].name = DotDot /\ dents[n][k].did = "hidden"
       /\ \E k \in DOMAIN dents[n] : dents[n][k].name = DotGit /\ dents[n][k].did = "printed"
       /\ \E k \in DOMAIN dents[n] : dents[n][k].name = DotDotName /\ dents[n][k].did = "printed"

\* ------------------------------------------------------------ C5
\* The characters of a path.
Chars(p) == [pre |-> p.pre, tail |-> p.tail]

\* The path of entry name of node n: the node's path, a '/' unless it ends
\* in one, and the name, cut to the PATH_MAX characters of the buffer.
BuiltPath(n, name) ==
  LET b == heap[n].path
      full == (IF LastChar(b) # "/" THEN b.tail \o <<"/">> ELSE b.tail) \o name
  IN  [pre |-> b.pre, tail |-> SubSeq(full, 1, Min(Len(full), PATH_MAX - b.pre))]

\* The entries of node n that the lister has dealt with.
Entries(n) == SelectSeq(dents[n], LAMBDA e : e.did # "aborted")

Visible(e) == ~HiddenByPolicy(e.name, filter)

RECURSIVE VisibleNames(_)
VisibleNames(es) ==
  IF es = <<>> THEN <<>>
  ELSE (IF Visible(Head(es)) THEN <<Head(es).name>> ELSE <<>>) \o VisibleNames(Tail(es))

ErrorsAbout(n, name) ==
  {i \in DOMAIN err : err[i].t = "perror" /\ err[i].n = n /\ err[i].name = name}

\* C5: a visible entry whose lstat fails gets no line and no queue node and
\* exactly one diagnostic, which names its path; the lines of the directory
\* are those of the same entries without the failing ones, and the lister
\* returns only from its set-up or at the end of the directory.
C5_LstatFailureSkipsOneEntry ==
  /\ \A n \in Nodes :
       /\ NamesOf(n, out)
            = VisibleNames(SelectSeq(Entries(n), LAMBDA e : e.did # "failed"))
       /\ \A k \in DOMAIN dents[n] :
            LET e == dents[n][k]
            IN  /\ e.did = "failed" =>
                     /\ Visible(e)
                     /\ Cardinality(ErrorsAbout(n, e.name)) = 1
                     /\ \A i \in ErrorsAbout(n, e.name) :
                          Chars(err[i].s) = BuiltPath(n, e.name)
                     /\ e.child = NULL
                     /\ \A m \in Nodes :
                          origin[m] = n => Chars(heap[m].path) # BuiltPath(n, e.name)
                /\ e.did # "failed" => ErrorsAbout(n, e.name) = {}
  /\ pc = "ret" => opened[head] # "open"

\* A directory gave three visible entries, the second of which failed lstat,
\* and its listing ended with the lines of the first and the third.
C5_Witness ==
  /\ pc = "ret"
  /\ Len(dents[head]) = 3
  /\ dents[head][1].did = "printed"
  /\ dents[head][2].did = "failed"
  /\ dents[head][3].did = "printed"
  /\ NamesOf(head, out) = <<dents[head][1].name, dents[head][3].name>>

\* ------------------------------------------------------------ C6
\* C6: when opendir fails or the base path is too long, list_dir prints one
\* diagnostic and returns: no line, no node, the queue as it was.  It goes on
\* into the directory only when the path is short enough.  After any return
\* main moves to the next node, and at the end every node ever queued has been
\* handed to list_dir.
C6_DirectoryErrorIsLocal ==
  /\ [][(pc = "list" /\ pc' # "read")
          => /\ pc' = "ret"
             /\ Len(err') = Len(err) + 1
             /\ err'[Len(err')].n = head
             /\ SubSeq(err', 1, Len(err)) = err
             /\ out' = out
             /\ heap' = heap
             /\ head' = head
             /\ freed' = freed
             /\ dents' = dents]_vars
  /\ [][(pc = "list" /\ pc' = "read") => strlen(heap[head].path) < PATH_MAX - 1]_vars
  /\ [][pc = "ret" => (pc' = "loop" /\ head' = heap[head].next /\ heap' = heap)]_vars
  /\ [](pc = "done" => Range(listed) = Nodes)

\* A finished run in which a directory's path was too long to list, and the
\* directory queued behind it was handed to list_dir and could not be opened.
C6_Witness ==
  /\ pc = "done"
  /\ \E i, j \in DOMAIN listed :
       /\ opened[listed[i]] = "too_long"
       /\ opened[listed[j]] = "open_failed"
       /\ i < j

\* ------------------------------------------------------------ C7
\* C7: at every dequeue and at termination no directory stream is open.
C7_HandlesReleased == pc \in {"loop", "done"} => handles = 0

\* ------------------------------------------------------------ C8
ListedPaths == [i \in DOMAIN listed |-> Chars(heap[listed[i]].path)]

NoDuplicates(s) == \A i, j \in DOMAIN s : s[i] = s[j] => i = j

\* An entry that leads to a directory: visible under the policy, a directory
\* by the metadata lstat gave, and not "." or "..".
LeadsDown(e) ==
  /\ Visible(e)
  /\ e.did # "failed"
  /\ e.type = "dir"
  /\ e.name \notin {Dot, DotDot}

\* The directories reachable from the root through such entries.
ReachablePaths ==
  {Chars(heap[1].path)} \cup
  {BuiltPath(n, dents[n][k].name) :
     <<n, k>> \in {nk \in Nodes \X (1..MaxReads) :
                    /\ nk[2] \in DOMAIN dents[nk[1]]
                    /\ LeadsDown(dents[nk[1]][nk[2]])}}

\* C8 as stated: the driver reaches the empty queue, having listed exactly
\* once each reachable directory and no other.
C8_ListsEveryReachableDirectory ==
  /\ <>(pc = "done")
  /\ [](pc = "done" =>
          /\ NoDuplicates(ListedPaths)
          /\ Range(ListedPaths) = ReachablePaths)

\* C8 as amended: the driver stops, at the empty queue unless an allocation
\* failed; at the empty queue it has listed exactly once each reachable
\* directory and no other in a recursive run, and the root alone otherwise.
C8_TerminatesHavingListedOnce ==
  /\ <>(pc \in {"done", "exit"})
  /\ [](pc = "exit" => err # <<>> /\ err[Len(err)] = Perror(Str(0, NUL, <<>>), NULL, <<>>))
  /\ [](pc = "done" =>
          /\ NoDuplicates(ListedPaths)
          /\ Range(ListedPaths)
               = (IF recursive THEN ReachablePaths ELSE {Chars(heap[1].path)}))

\* A finished recursive run under All that read ".", a symbolic link and a
\* directory, and listed the root and that directory.
C8_Witness ==
  /\ pc = "done"
  /\ recursive
  /\ filter = FILTER_ALL
  /\ \E k \in DOMAIN dents[1] : dents[1][k].name = Dot /\ dents[1][k].did = "printed"
  /\ \E k \in DOMAIN dents[1] : dents[1][k].type = "lnk" /\ dents[1][k].did = "printed"
  /\ Len(listed) = 2

\* ------------------------------------------------------------ C9
\* The nodes created while n was listed, in creation order.
KidsOf(n) == SelectSeq([i \in Nodes |-> i], LAMBDA m : origin[m] = n)

\* C9: while D is listed the queue is D, then the subdirectories of D queued
\* so far in read order, each at D's depth + 1, then the nodes that were
\* pending behind D; and every directory below a directory is listed before
\* that directory's next sibling.
C9_InsertedAfterCurrent ==
  /\ pc \in {"read", "ret"} =>
       LET kids == KidsOf(head)
           q == Queue
       IN  /\ Len(q) >= 1 + Len(kids)
           /\ q[1] = head
           /\ SubSeq(q, 2, 1 + Len(kids)) = kids
           /\ subque = q[1 + Len(kids)]
           /\ {q[i] : i \in (2 + Len(kids))..Len(q)}
                = (Nodes \ freed) \ ({head} \cup Range(kids))
           /\ \A i \in (2 + Len(kids))..Len(q) : \A k \in DOMAIN kids : q[i] < kids[k]
           /\ \A i, j \in DOMAIN kids : i < j => ReadIndex(kids[i]) < ReadIndex(kids[j])
  /\ \A n \in Nodes : origin[n] # NULL => heap[n].depth = heap[origin[n]].depth + 1
  /\ \A s1, s2 \in Nodes :
       (/\ origin[s1] # NULL
        /\ origin[s1] = origin[s2]
        /\ ReadIndex(s1) < ReadIndex(s2)
        /\ s2 \in Range(listed))
       => \A d \in Nodes :
            IsAncestor(s1, d) => (d \in Range(listed) /\ Index(listed, d) < Index(listed, s2))

\* The listing of a directory below the root has queued a subdirectory ahead
\* of a node that was pending behind it.
C9_Witness ==
  /\ pc = "ret"
  /\ origin[head] # NULL
  /\ KidsOf(head) # <<>>
  /\ Len(Queue) > 1 + Len(KidsOf(head))

\* ------------------------------------------------------------ C10
\* C10: the nodes not yet freed are exactly those the queue holds from head
\* on; a node is freed once, after list_dir was called on it and returned; no
\* freed node is read, written or linked to; and at normal termination every
\* node has been freed.
C10_NodeLifetime ==
  /\ Range(Queue) = Nodes \ freed
  /\ NoDuplicates(Queue)
  /\ faults = {}
  /\ freed \subseteq Range(listed)
  /\ pc \in {"list", "read", "ret"} => head \notin freed
  /\ \A n \in Nodes \ freed : heap[n].next \notin freed
  /\ pc = "done" => freed = Nodes

\* A run that ended normally after three nodes were created and freed.
C10_Witness ==
  /\ pc = "done"
  /\ Len(heap) >= 3
  /\ freed = Nodes

====
